---- MODULE Spec2Model ----
(***************************************************************************)
(* Model of index.js: the plugin-based HTTP API host.                      *)
(*                                                                         *)
(* Strings whose characters the program inspects (paths, file names) are   *)
(* sequences of one-character strings, so that split('?'), includes('?')   *)
(* and concatenation are computed as JavaScript computes them.  JavaScript *)
(* values are tagged records: [t |-> "undef"], [t |-> "null"],             *)
(* [t |-> "num", v |-> n], [t |-> "str", v |-> s], [t |-> "bool", v |-> b],*)
(* [t |-> "arr", v |-> <<...>>], [t |-> "obj", f |-> [key |-> value]],     *)
(* [t |-> "path", v |-> <<chars>>] (a string kept as characters) and       *)
(* [t |-> "cats", v |-> <<categories>>] (the array built by /api/info).    *)
(***************************************************************************)
EXTENDS Integers, Sequences, FiniteSets, TLC

\* ------------------------------------------------------------------ bounds
\* Number of candidate .js files under api/ (readdirSync order).
MaxFiles == 2
\* Number of requests that can be in flight at once.
MaxInflight == 2

\* ------------------------------------------------------------ JS values
Undef == [t |-> "undef"]
Null == [t |-> "null"]
Num(n) == [t |-> "num", v |-> n]
Str(s) == [t |-> "str", v |-> s]
Bool(b) == [t |-> "bool", v |-> b]
Arr(s) == [t |-> "arr", v |-> s]
Obj(f) == [t |-> "obj", f |-> f]
PathStr(s) == [t |-> "path", v |-> s]

EmptyFcn == [k \in {} |-> Null]

\* JavaScript truthiness (the `data &&` and `x || y` tests).
Truthy(x) ==
    CASE x.t = "undef" -> FALSE
      [] x.t = "null" -> FALSE
      [] x.t = "num" -> x.v # 0
      [] x.t = "str" -> x.v # ""
      [] x.t = "path" -> x.v # <<>>
      [] x.t = "bool" -> x.v
      [] OTHER -> TRUE

\* typeof x === 'object': null, arrays and objects all answer 'object'.
TypeofObject(x) == x.t \in {"null", "arr", "obj", "cats"}

\* a || b
OrElse(a, b) == IF Truthy(a) THEN a ELSE b

\* The decimal index keys "0", "1", ... of an array's own properties.
IndexKey(i) == CASE i = 1 -> "0" [] i = 2 -> "1" [] i = 3 -> "2" [] OTHER -> "3"

\* Own enumerable properties of a value, as spread (...data) copies them.
OwnProps(x) ==
    CASE x.t = "obj" -> x.f
      [] x.t = "arr" -> [k \in {IndexKey(i) : i \in DOMAIN x.v} |->
                            x.v[CHOOSE i \in DOMAIN x.v : IndexKey(i) = k]]
      [] OTHER -> EmptyFcn

\* data.key : an own property, else undefined.
GetProp(x, key) ==
    IF key \in DOMAIN OwnProps(x) THEN OwnProps(x)[key] ELSE Undef

\* { ...base, ...over } : later keys win.
Spread(base, over) ==
    [k \in DOMAIN base \cup DOMAIN over |-> IF k \in DOMAIN over THEN over[k] ELSE base[k]]

\* ------------------------------------------------------ response envelope
DefaultCreator == Str("Created Using Rynn UI")

\* Variant: the configured creator is used as it is, with no default.
CreatorOf_NoDefault(cfg) == cfg

\* settings.apiSettings?.creator || "Created Using Rynn UI"
CreatorOf(cfg) == OrElse(cfg, DefaultCreator)

\* The literal { status: ..., creator: ... } that precedes the spread.
EnvelopeDefaults(cfg, data) ==
    ("status" :> OrElse(GetProp(data, "status"), Num(200))) @@
    ("creator" :> CreatorOf(cfg))

\* Variant: the defaults are written after the spread instead of before it.
Envelope_DefaultsLast(cfg, data) ==
    IF Truthy(data) /\ TypeofObject(data)
    THEN Obj(Spread(OwnProps(data), EnvelopeDefaults(cfg, data)))
    ELSE data

\* What the patched res.json hands to the original res.json.
Envelope(cfg, data) ==
    IF Truthy(data) /\ TypeofObject(data)
    THEN Obj(Spread(EnvelopeDefaults(cfg, data), OwnProps(data)))
    ELSE data

\* ------------------------------------------------------------- strings
\* The index of the first occurrence of character c in s, 0 when absent.
RECURSIVE IndexOf(_, _, _)
IndexOf(s, c, i) ==
    IF i > Len(s) THEN 0
    ELSE IF s[i] = c THEN i
    ELSE IndexOf(s, c, i + 1)

\* String.prototype.includes for a one-character needle.
Includes(s, c) == IndexOf(s, c, 1) # 0

\* String.prototype.split for a one-character separator: every occurrence
\* of the separator ends a piece; the result always has at least one piece.
RECURSIVE Split(_, _)
Split(s, c) ==
    LET i == IndexOf(s, c, 1) IN
    IF i = 0 THEN <<s>>
    ELSE <<SubSeq(s, 1, i - 1)>> \o Split(SubSeq(s, i + 1, Len(s)), c)

\* arr[i] with JavaScript's 0-based index; undefined past the end.
At(arr, i) == IF i + 1 \in DOMAIN arr THEN PathStr(arr[i + 1]) ELSE Undef

\* String.prototype.toLowerCase on the method names the model uses.
ToLowerCase(s) ==
    CASE s = "GET" -> "get"
      [] s = "POST" -> "post"
      [] s = "HEAD" -> "head"
      [] OTHER -> s

ApiPrefix == <<"/", "a", "p", "i">>

\* Path templates a module's meta.path can carry.
TplA == <<"/", "a">>
TplB == <<"/", "b">>
TplAQuery == <<"/", "a", "?", "q">>
TplAQuery2 == <<"/", "a", "?", "q", "?", "r">>
TplInfo == <<"/", "i", "n", "f", "o">>
TplNoSlash == <<"a">>
TplEmpty == <<>>

\* Request paths.
UrlApiA == <<"/", "a", "p", "i", "/", "a">>
UrlApiB == <<"/", "a", "p", "i", "/", "b">>
UrlApiInfo == <<"/", "a", "p", "i", "/", "i", "n", "f", "o">>
UrlApiNone == <<"/", "a", "p", "i", "/", "z">>
UrlSettings == <<"/", "s", "e", "t", "t", "i", "n", "g", "s", ".", "j", "s", "o", "n">>
UrlDocs == <<"/", "d", "o", "c", "s">>
UrlDocsHtml == <<"/", "d", "o", "c", "s", ".", "h", "t", "m", "l">>

\* const webPages = ["portal.html", "test-post.html", "docs.html"]
webPages ==
    << <<"p", "o", "r", "t", "a", "l", ".", "h", "t", "m", "l">>,
       <<"t", "e", "s", "t", "-", "p", "o", "s", "t", ".", "h", "t", "m", "l">>,
       <<"d", "o", "c", "s", ".", "h", "t", "m", "l">> >>

\* `/${page.split('.')[0]}` for every page.
PageRoutes == {<<"/">> \o Split(webPages[i], ".")[1] : i \in DOMAIN webPages}

\* The files the program itself names under web/: the three pages and the
\* two fallback documents.  express.static answers GET and HEAD for them.
WebFiles ==
    {<<"/">> \o webPages[i] : i \in DOMAIN webPages} \cup
    { <<"/", "4", "0", "4", ".", "h", "t", "m", "l">>,
      <<"/", "5", "0", "0", ".", "h", "t", "m", "l">> }

\* ------------------------------------------------------- plugin modules
Fn == [t |-> "function"]

\* typeof x === 'function'
TypeofFunction(x) == x.t = "function"

\* What require(filePath) yields for one candidate file: `throws` when
\* loading the file raises; otherwise whether module.meta exists, the value
\* of module.onStart and the meta fields the program reads.
BaseModule ==
    [throws |-> FALSE, hasMeta |-> TRUE, onStart |-> Fn,
     path |-> PathStr(TplA), method |-> Undef, category |-> Str("x"),
     description |-> Undef, author |-> Undef]

MetaPaths ==
    {Undef, PathStr(TplA), PathStr(TplB), PathStr(TplAQuery), PathStr(TplAQuery2),
     PathStr(TplInfo), PathStr(TplNoSlash), PathStr(TplEmpty)}

MetaMethods == {Undef, Str("GET"), Str("POST"), Str("all"), Str("set"), Str("foo")}

MetaCategories == {Undef, Str("x"), Str("toString")}

\* The files that break the module format or fail to load.
BrokenModules ==
    { [BaseModule EXCEPT !.throws = TRUE],
      [BaseModule EXCEPT !.hasMeta = FALSE],
      [BaseModule EXCEPT !.onStart = Undef],
      [BaseModule EXCEPT !.onStart = Str("handler")] }

\* The candidate files: the broken ones, and well-formed modules that vary
\* the path, the method or the category of the base module.
Candidates ==
    BrokenModules \cup
    {[BaseModule EXCEPT !.path = x] : x \in MetaPaths} \cup
    {[BaseModule EXCEPT !.method = x] : x \in MetaMethods} \cup
    {[BaseModule EXCEPT !.category = x] : x \in MetaCategories} \cup
    {[BaseModule EXCEPT !.path = PathStr(TplInfo), !.method = Str("POST")]}

\* The candidates of the concurrent specification.
ConcCandidates ==
    { BaseModule,
      [BaseModule EXCEPT !.method = Str("POST")],
      [BaseModule EXCEPT !.hasMeta = FALSE] }

\* The values settings.apiSettings?.creator can have.
CreatorSettings == {Undef, Str("Me")}

\* ---------------------------------------------------------------- state
VARIABLES
    pc,          \* "loading" (loadModules running), "listening", "crashed"
    settings,    \* settings.apiSettings?.creator, read once at start
    files,       \* the candidate files visited so far, in readdirSync order
    stack,       \* the router's layers added by app[method](routePath, ...)
    appSettings, \* app.settings keys written by app.set(routePath, ...)
    apiModules,  \* the catalog array
    totalRoutes, \* the counter
    warned,      \* console.warn calls made by loadModules
    errored,     \* console.error calls made by loadModules
    reqs,        \* per connection: the request being served and its answer
    arg,         \* the argument of the res.json call under test
    wire         \* what that call handed to the original res.json

vars == <<pc, settings, files, stack, appSettings, apiModules, totalRoutes,
          warned, errored, reqs, arg, wire>>

loadVars == <<files, stack, appSettings, apiModules, totalRoutes, warned, errored>>

Slots == 1 .. MaxInflight

IdleReq ==
    [st |-> "idle", m |-> "", p |-> <<>>, bad |-> FALSE, by |-> "", owner |-> 0,
     failed |-> "no", code |-> 0, body |-> Undef]

\* ------------------------------------------------------------ loadModules
\* Functions of the express app that register a route for a method name.
RouteMethods == {"get", "post", "put", "delete", "patch", "head", "options", "all"}

\* Functions of the app that take (name, value) and store a setting.
SettingFunctions == {"set"}

\* typeof app[method] === 'function'
AppHasFunction(method) == method \in RouteMethods \cup SettingFunctions

\* Variant: the validation forgets the typeof test on onStart.
InvalidFormat_NoTypeof(d) ==
    \/ ~d.hasMeta
    \/ ~Truthy(d.onStart)

\* !module.meta || !module.onStart || typeof module.onStart !== 'function'
InvalidFormat(d) ==
    \/ ~d.hasMeta
    \/ ~Truthy(d.onStart)
    \/ ~TypeofFunction(d.onStart)

\* module.meta.path.split('?')[0]
basePath(d) == Split(d.path.v, "?")[1]

\* '/api' + basePath
routePath(d) == ApiPrefix \o basePath(d)

\* (module.meta.method || 'get').toLowerCase()
method(d) == ToLowerCase(OrElse(d.method, Str("get")).v)

\* routePath + (path.includes('?') ? '?' + path.split('?')[1] : '')
catalogPath(d) ==
    routePath(d) \o
    (IF Includes(d.path.v, "?") THEN <<"?">> \o At(Split(d.path.v, "?"), 1).v ELSE <<>>)

\* The object pushed onto apiModules; n is the module's meta.name.
CatalogEntry(d, n) ==
    [name |-> Num(n), description |-> d.description, category |-> d.category,
     path |-> PathStr(catalogPath(d)), author |-> d.author,
     method |-> OrElse(d.method, Str("get"))]

\* How the try block ends for one file: "threw" (the catch logs an error),
\* "skipped" (invalid format: a warning and return), "bound".
LoadOutcome(d) ==
    IF d.throws THEN "threw"
    ELSE IF InvalidFormat(d) THEN "skipped"
    ELSE IF d.path.t = "undef" THEN "threw"
    ELSE IF ~AppHasFunction(method(d)) THEN "threw"
    ELSE "bound"

\* Variant: files are also loaded and bound while the server is listening.
LoadFile_AnyTime(d) ==
    /\ pc \in {"loading", "listening"}
    /\ Len(files) < MaxFiles
    /\ LET n == Len(files) + 1
           out == LoadOutcome(d)
       IN  /\ files' = Append(files, d)
           /\ warned' = IF out = "skipped" THEN warned + 1 ELSE warned
           /\ errored' = IF out = "threw" THEN errored + 1 ELSE errored
           /\ stack' = IF out = "bound" /\ method(d) \in RouteMethods
                       THEN Append(stack, [method |-> method(d), path |-> routePath(d), owner |-> n])
                       ELSE stack
           /\ appSettings' = IF out = "bound" /\ method(d) \in SettingFunctions
                             THEN appSettings \cup {routePath(d)}
                             ELSE appSettings
           /\ apiModules' = IF out = "bound" THEN Append(apiModules, CatalogEntry(d, n)) ELSE apiModules
           /\ totalRoutes' = IF out = "bound" THEN totalRoutes + 1 ELSE totalRoutes
    /\ UNCHANGED <<pc, settings, reqs, arg, wire>>

\* One iteration of the forEach for a .js file d, the n-th file visited.
\* Each file carries its position as meta.name, so entries can be told apart.
LoadFile(d) ==
    /\ pc = "loading"
    /\ Len(files) < MaxFiles
    /\ LET n == Len(files) + 1
           out == LoadOutcome(d)
       IN  /\ files' = Append(files, d)
           /\ warned' = IF out = "skipped" THEN warned + 1 ELSE warned
           /\ errored' = IF out = "threw" THEN errored + 1 ELSE errored
           /\ stack' = IF out = "bound" /\ method(d) \in RouteMethods
                       THEN Append(stack, [method |-> method(d), path |-> routePath(d), owner |-> n])
                       ELSE stack
           /\ appSettings' = IF out = "bound" /\ method(d) \in SettingFunctions
                             THEN appSettings \cup {routePath(d)}
                             ELSE appSettings
           /\ apiModules' = IF out = "bound" THEN Append(apiModules, CatalogEntry(d, n)) ELSE apiModules
           /\ totalRoutes' = IF out = "bound" THEN totalRoutes + 1 ELSE totalRoutes
    /\ UNCHANGED <<pc, settings, reqs, arg, wire>>

\* loadModules(apiFolder) returns; the built-in routes and the fallback
\* handlers are registered and app.listen starts the server.
Listen ==
    /\ pc = "loading"
    /\ pc' = "listening"
    /\ UNCHANGED <<settings, loadVars, reqs, arg, wire>>

\* ------------------------------------------------------- GET /api/info
\* Names every object literal inherits from Object.prototype.
ObjectPrototypeKeys ==
    {"constructor", "toString", "toLocaleString", "valueOf", "hasOwnProperty",
     "isPrototypeOf", "propertyIsEnumerable", "__proto__"}

\* The property key a category value becomes in categories[module.category].
PropertyKey(x) == IF x.t = "undef" THEN "undefined" ELSE x.v

\* Position of the own property `key` in the categories object, 0 if absent.
\* The object is the sequence of its own (key, value) pairs in insertion
\* order, which is the order Object.values returns for these keys.
OwnIndex(categories, key) ==
    IF \E i \in DOMAIN categories : categories[i].key = key
    THEN CHOOSE i \in DOMAIN categories : categories[i].key = key
    ELSE 0

\* { name, desc, path, author, method } pushed for one catalog entry.
CatalogItem(module) ==
    [name |-> module.name, desc |-> module.description, path |-> module.path,
     author |-> module.author, method |-> module.method]

\* The forEach over apiModules from entry i on.  `threw` is set when
\* categories[module.category] is an inherited property: it is truthy, so no
\* own category is created, and its .items is undefined, so .push throws.
RECURSIVE GroupFrom(_, _, _)
GroupFrom(entries, i, categories) ==
    IF i > Len(entries) THEN [threw |-> FALSE, categories |-> categories]
    ELSE
        LET module == entries[i]
            key == PropertyKey(module.category)
            own == OwnIndex(categories, key)
            item == CatalogItem(module)
        IN  IF own # 0
            THEN GroupFrom(entries, i + 1,
                     [categories EXCEPT ![own].val.items = Append(@, item)])
            ELSE IF key \in ObjectPrototypeKeys
            THEN [threw |-> TRUE, categories |-> categories]
            ELSE GroupFrom(entries, i + 1,
                     Append(categories,
                            [key |-> key,
                             val |-> [name |-> module.category, items |-> <<item>>]]))

\* Object.values(categories)
ObjectValues(categories) == [i \in DOMAIN categories |-> categories[i].val]

\* The handler of app.get('/api/info'): the payload it passes to res.json,
\* or `threw`.
InfoHandler(entries) ==
    LET g == GroupFrom(entries, 1, <<>>) IN
    IF g.threw THEN [threw |-> TRUE, data |-> Undef]
    ELSE [threw |-> FALSE,
          data |-> Obj("categories" :> [t |-> "cats", v |-> ObjectValues(g.categories)])]

\* ------------------------------------------------------------- dispatch
File(name) == [t |-> "file", v |-> name]

\* Variant: the layer is matched on the path alone.
Matches_AnyMethod(layer, m, p) == layer.path = p

\* Whether a router layer registered by app[method](path, ...) takes a
\* request: the path is the layer's path and the method is the layer's, a
\* HEAD request is also taken by a GET route, and app.all takes every method.
Matches(layer, m, p) ==
    /\ layer.path = p
    /\ \/ layer.method = "all"
       \/ layer.method = m
       \/ m = "head" /\ layer.method = "get"

\* Variant: the layer registered last for a request takes it.
FirstMatch_Last(layers, m, p) ==
    IF \E i \in DOMAIN layers : Matches(layers[i], m, p)
    THEN CHOOSE i \in DOMAIN layers :
            /\ Matches(layers[i], m, p)
            /\ \A j \in DOMAIN layers : Matches(layers[j], m, p) => j <= i
    ELSE 0

\* The first module layer, in registration order, that takes the request.
FirstMatch(layers, m, p) ==
    IF \E i \in DOMAIN layers : Matches(layers[i], m, p)
    THEN CHOOSE i \in DOMAIN layers :
            /\ Matches(layers[i], m, p)
            /\ \A j \in DOMAIN layers : Matches(layers[j], m, p) => i <= j
    ELSE 0

\* app.get(...) built-ins answer GET and, like every GET route, HEAD.
IsGet(m) == m \in {"get", "head"}

\* Which handler of the middleware chain answers the request (m, p), in
\* registration order: express.json (a body that does not parse is an error
\* passed to the error handler), cors (answers every OPTIONS request),
\* express.static, the module routes, /api/info, /settings.json, the page
\* routes, the 404 handler.  `bad` says the body does not parse.
Dispatch(layers, m, p, bad) ==
    IF bad THEN [by |-> "bodyparser", owner |-> 0]
    ELSE IF m = "options" THEN [by |-> "cors", owner |-> 0]
    ELSE IF IsGet(m) /\ p \in WebFiles THEN [by |-> "static", owner |-> 0]
    ELSE IF FirstMatch(layers, m, p) # 0
    THEN [by |-> "module", owner |-> layers[FirstMatch(layers, m, p)].owner]
    ELSE IF IsGet(m) /\ p = UrlApiInfo THEN [by |-> "info", owner |-> 0]
    ELSE IF IsGet(m) /\ p = UrlSettings THEN [by |-> "settings", owner |-> 0]
    ELSE IF IsGet(m) /\ p \in PageRoutes THEN [by |-> "page", owner |-> 0]
    ELSE [by |-> "notfound", owner |-> 0]

\* A request answered at once with an HTTP status code and a body.
Answered(m, p, bad, h, failed, code, body) ==
    [st |-> "done", m |-> m, p |-> p, bad |-> bad, by |-> h.by, owner |-> h.owner,
     failed |-> failed, code |-> code, body |-> body]

NotFoundBody == File("404.html")
ErrorBody == File("500.html")

\* Request methods and URLs the clients send.
ReqMethods == {"get", "post", "head", "options"}
ReqPaths == {UrlApiA, UrlApiB, UrlApiInfo, UrlApiNone, UrlSettings, UrlDocs, UrlDocsHtml}

\* Requests by method and by whether the body fails to parse; only POST
\* requests carry a body here.
ReqShapes ==
    {[m |-> m, bad |-> FALSE] : m \in ReqMethods} \cup {[m |-> "post", bad |-> TRUE]}

\* Payloads the plugin handlers pass to res.json.
HandlerPayloads ==
    { Obj("message" :> Str("pong")),
      Obj(("status" :> Num(201)) @@ ("x" :> Num(1))) }

\* What a plugin's onStart does with a request: answer through res.json
\* before returning, throw before returning, or return having started
\* asynchronous work that answers or fails later.
HandlerBehaviours ==
    {[kind |-> "json", data |-> x] : x \in HandlerPayloads} \cup
    {[kind |-> "throw", data |-> Undef], [kind |-> "async", data |-> Undef]}

\* No plugin handler runs for the request.
NoBehaviour == [kind |-> "none", data |-> Undef]

\* A request (m, p) arrives on the idle connection s and runs through the
\* middleware chain up to the end of the synchronous part of its handler.
\* A handler that throws before returning is passed by the router to the
\* error handler, which answers 500.
Request(s, m, p, bad, b) ==
    /\ pc = "listening"
    /\ reqs[s].st = "idle"
    /\ b = NoBehaviour <=> Dispatch(stack, m, p, bad).by # "module"
    /\ LET h == Dispatch(stack, m, p, bad)
           info == InfoHandler(apiModules)
       IN  reqs' = [reqs EXCEPT ![s] =
             CASE h.by = "bodyparser" -> Answered(m, p, bad, h, "no", 500, ErrorBody)
               [] h.by = "cors" -> Answered(m, p, bad, h, "no", 204, Undef)
               [] h.by = "static" -> Answered(m, p, bad, h, "no", 200, File("web"))
               [] h.by = "settings" -> Answered(m, p, bad, h, "no", 200, File("settings.json"))
               [] h.by = "page" -> Answered(m, p, bad, h, "no", 200, File("page"))
               [] h.by = "notfound" -> Answered(m, p, bad, h, "no", 404, NotFoundBody)
               [] h.by = "info" ->
                    IF info.threw
                    THEN Answered(m, p, bad, h, "sync", 500, ErrorBody)
                    ELSE Answered(m, p, bad, h, "no", 200, Envelope(settings, info.data))
               [] h.by = "module" /\ b.kind = "json" ->
                    Answered(m, p, bad, h, "no", 200, Envelope(settings, b.data))
               [] h.by = "module" /\ b.kind = "throw" ->
                    Answered(m, p, bad, h, "sync", 500, ErrorBody)
               [] OTHER ->
                    [st |-> "pending", m |-> m, p |-> p, bad |-> bad, by |-> h.by,
                     owner |-> h.owner, failed |-> "no", code |-> 0, body |-> Undef]]
    /\ UNCHANGED <<pc, settings, loadVars, arg, wire>>

\* Variant: closing a connection also drops the oldest catalog entry.
Finish_DropsEntry(s) ==
    /\ reqs[s].st = "done"
    /\ reqs' = [reqs EXCEPT ![s] = IdleReq]
    /\ apiModules' = IF apiModules = <<>> THEN apiModules ELSE Tail(apiModules)
    /\ UNCHANGED <<pc, settings, files, stack, appSettings, totalRoutes, warned,
                   errored, arg, wire>>

\* The answer has been written and the connection is free again.
Finish(s) ==
    /\ reqs[s].st = "done"
    /\ reqs' = [reqs EXCEPT ![s] = IdleReq]
    /\ UNCHANGED <<pc, settings, loadVars, arg, wire>>

\* The asynchronous work of a handler calls res.json(data).
AsyncRespond(s, data) ==
    /\ pc = "listening"
    /\ reqs[s].st = "pending"
    /\ reqs' = [reqs EXCEPT ![s].st = "done", ![s].code = 200,
                            ![s].body = Envelope(settings, data)]
    /\ UNCHANGED <<pc, settings, loadVars, arg, wire>>

\* The asynchronous work of a handler fails.  The wrapper has returned and
\* does not hand onStart's result to the router, so nothing catches the
\* failure: an exception in a callback ends the process, and a rejected
\* promise ends it or is only reported, as the runtime decides; the request
\* is then never answered.
AsyncFail(s, crash) ==
    /\ pc = "listening"
    /\ reqs[s].st = "pending"
    /\ reqs' = [reqs EXCEPT ![s].st = "hung", ![s].failed = "async"]
    /\ pc' = IF crash THEN "crashed" ELSE pc
    /\ UNCHANGED <<settings, loadVars, arg, wire>>

\* ------------------------------------------------------ res.json alone
\* Payloads for the envelope taken alone.
StatusValues == {Num(0), Num(201), Str(""), Null, Bool(FALSE)}

ObjectPayloads ==
    { Obj(f) : f \in
        { EmptyFcn, "message" :> Str("pong") } \cup
        { ("status" :> x) : x \in StatusValues } \cup
        { ("status" :> x) @@ ("message" :> Str("pong")) : x \in StatusValues } \cup
        { ("creator" :> Str("Plugin")), ("creator" :> Str("")) } \cup
        { ("status" :> x) @@ ("creator" :> Str("Plugin")) : x \in StatusValues } }

ArrayPayloads == { Arr(<<>>), Arr(<<Num(1)>>), Arr(<<Str("a"), Num(2)>>) }

ScalarPayloads == { Null, Num(0), Num(7), Str(""), Str("ok"), Bool(TRUE), Bool(FALSE) }

Payloads == ObjectPayloads \cup ArrayPayloads \cup ScalarPayloads

NotSent == [t |-> "unsent"]

\* A handler calls res.json(arg).
ResJson ==
    /\ wire = NotSent
    /\ arg \in Payloads
    /\ wire' = Envelope(settings, arg)
    /\ UNCHANGED <<pc, settings, loadVars, reqs, arg>>

\* The next call, with another argument.
NextCall(data) ==
    /\ wire # NotSent
    /\ arg' = data
    /\ wire' = NotSent
    /\ UNCHANGED <<pc, settings, loadVars, reqs>>

\* ------------------------------------------------------- specifications
InitLoad ==
    /\ files = <<>>
    /\ stack = <<>>
    /\ appSettings = {}
    /\ apiModules = <<>>
    /\ totalRoutes = 0
    /\ warned = 0
    /\ errored = 0
    /\ reqs = [s \in Slots |-> IdleReq]

\* The program: modules are loaded, then requests are served one at a time.
Init ==
    /\ pc = "loading"
    /\ InitLoad
    /\ settings \in CreatorSettings
    /\ arg = Undef
    /\ wire = NotSent

Next ==
    \/ \E d \in Candidates : LoadFile(d)
    \/ Listen
    \/ \E r \in ReqShapes, p \in ReqPaths, b \in HandlerBehaviours \cup {NoBehaviour} :
          Request(1, r.m, p, r.bad, b)
    \/ Finish(1)
    \/ \E data \in HandlerPayloads : AsyncRespond(1, data)
    \/ \E crash \in BOOLEAN : AsyncFail(1, crash)

Spec == Init /\ [][Next]_vars

\* The program with requests of several connections interleaved.
NextConc ==
    \/ \E d \in ConcCandidates : LoadFile(d)
    \/ Listen
    \/ \E s \in Slots, r \in ReqShapes, p \in {UrlApiA, UrlApiInfo, UrlApiNone},
          b \in HandlerBehaviours \cup {NoBehaviour} : Request(s, r.m, p, r.bad, b)
    \/ \E s \in Slots : Finish(s)
    \/ \E s \in Slots, data \in HandlerPayloads : AsyncRespond(s, data)
    \/ \E s \in Slots, crash \in BOOLEAN : AsyncFail(s, crash)

SpecConc == Init /\ [][NextConc]_vars

\* The program with interleaved GET requests for a module route, /api/info,
\* /settings.json and a path nothing is registered for.
FramePaths == {UrlApiA, UrlApiInfo, UrlSettings, UrlApiNone}

FrameBehaviours ==
    {[kind |-> "json", data |-> Obj("message" :> Str("pong"))],
     [kind |-> "async", data |-> Undef], NoBehaviour}

NextFrame ==
    \/ \E d \in ConcCandidates : LoadFile(d)
    \/ Listen
    \/ \E s \in Slots, p \in FramePaths, b \in FrameBehaviours :
          Request(s, "get", p, FALSE, b)
    \/ \E s \in Slots : Finish(s)
    \/ \E s \in Slots : AsyncRespond(s, Obj("message" :> Str("pong")))
    \/ \E s \in Slots, crash \in BOOLEAN : AsyncFail(s, crash)

SpecFrame == Init /\ [][NextFrame]_vars

\* The patched res.json applied to every payload under every configuration,
\* in a server that found no module and is listening.
InitJson ==
    /\ pc = "listening"
    /\ InitLoad
    /\ settings \in CreatorSettings \cup {Str("")}
    /\ arg \in Payloads
    /\ wire = NotSent

NextJson ==
    \/ ResJson
    \/ \E data \in Payloads : NextCall(data)

SpecJson == InitJson /\ [][NextJson]_vars

\* =================================================================== claims
\* Counting helpers over the state.
LayersOf(i) == {j \in DOMAIN stack : stack[j].owner = i}
EntriesOf(i) == {j \in DOMAIN apiModules : apiModules[j].name = Num(i)}

\* The four kinds of invalid candidate the isolation property lists: metadata
\* absent, entry point absent, entry point not a function, load exception.
ListedInvalid(d) ==
    \/ d.throws
    \/ ~d.hasMeta
    \/ d.onStart.t = "undef"
    \/ d.onStart.t # "function"

\* A module of valid format whose binding raises: meta.path is not set, or
\* meta.method (lower-cased, get when unset) names no function of the app.
BindingRaises(d) ==
    /\ ~ListedInvalid(d)
    /\ \/ d.path.t = "undef"
       \/ d.method.t = "str" /\ ~AppHasFunction(ToLowerCase(d.method.v))

\* C1 (as stated): when loadModules has finished, with k the number of
\* candidates that are invalid in one of the four listed ways, exactly N-k
\* routes are bound, exactly k warnings are logged, and a module is bound
\* exactly when it is itself not invalid, wherever it sits.
C1_AsStated ==
    pc # "loading" =>
        LET k == Cardinality({i \in DOMAIN files : ListedInvalid(files[i])}) IN
        /\ Len(stack) = Len(files) - k
        /\ warned + errored = k
        /\ \A i \in DOMAIN files : (LayersOf(i) # {}) <=> ~ListedInvalid(files[i])

\* C1 (amended): when loadModules has finished, with k the number of
\* candidates that are invalid in one of the four listed ways or whose
\* binding raises, exactly N-k modules are bound (counted by totalRoutes and
\* listed in the catalog), exactly k messages are logged (a warning for each
\* invalid format, an error for each exception), and a module is bound
\* exactly when it is itself neither invalid nor raising, wherever it sits
\* and whatever the other candidates are; a bound module has one catalog
\* entry and, when its method names a route-registration function, one route.
C1_Isolation ==
    pc # "loading" =>
        LET bad(d) == ListedInvalid(d) \/ BindingRaises(d)
            fmt(d) == ~d.throws /\ ListedInvalid(d)
            k == Cardinality({i \in DOMAIN files : bad(files[i])})
        IN  /\ totalRoutes = Len(files) - k
            /\ Len(apiModules) = Len(files) - k
            /\ warned = Cardinality({i \in DOMAIN files : fmt(files[i])})
            /\ warned + errored = k
            /\ \A i \in DOMAIN files :
                  /\ (EntriesOf(i) # {}) <=> ~bad(files[i])
                  /\ Cardinality(EntriesOf(i)) <= 1
                  /\ LayersOf(i) # {} => EntriesOf(i) # {}
                  /\ (~bad(files[i]) /\ method(files[i]) \in RouteMethods)
                        => Cardinality(LayersOf(i)) = 1

\* C1 witness: a file that fails to load was visited first and the valid
\* module visited after it is bound.
C1_Witness ==
    /\ pc = "listening"
    /\ Len(files) = 2
    /\ files[1].throws
    /\ files[2] = BaseModule
    /\ totalRoutes = 1
    /\ errored = 1

\* C2: in every state, each candidate has as many router entries as catalog
\* entries, at most one of each, only if it passed validation, and none of
\* either when it fails validation or binding (meta.path missing, or a
\* meta.method that names no route-registration function).
C2_RoutesMatchCatalog ==
    \A i \in DOMAIN files :
        LET d == files[i]
            noRouteFn == d.method.t = "str" /\ ToLowerCase(d.method.v) \notin RouteMethods
        IN  /\ Cardinality(LayersOf(i)) = Cardinality(EntriesOf(i))
            /\ Cardinality(LayersOf(i)) <= 1
            /\ LayersOf(i) # {} => ~ListedInvalid(d)
            /\ (ListedInvalid(d) \/ d.path.t = "undef" \/ noRouteFn) =>
                   LayersOf(i) = {} /\ EntriesOf(i) = {}

\* C3: after any sequence of binds there is at most one router entry and at
\* most one catalog entry per (method, resolved path) key: a module whose
\* key is already registered adds neither.
C3_OneBindingPerKey ==
    /\ \A i, j \in DOMAIN stack :
          stack[i].method = stack[j].method /\ stack[i].path = stack[j].path => i = j
    /\ \A i, j \in DOMAIN files :
          (/\ i < j
           /\ LayersOf(i) # {}
           /\ files[j].path.t # "undef"
           /\ \E l \in LayersOf(i) : stack[l].method = method(files[j])
                                     /\ stack[l].path = routePath(files[j]))
          => LayersOf(j) = {} /\ EntriesOf(j) = {}

\* C4: an object payload passed to res.json that has its own status field,
\* whatever the value, is sent with that status and not the default 200.
C4_OwnStatusWins ==
    (wire # NotSent /\ arg.t = "obj" /\ "status" \in DOMAIN arg.f) =>
        /\ wire.t = "obj"
        /\ "status" \in DOMAIN wire.f
        /\ wire.f["status"] = arg.f["status"]

\* C4 witness: a payload whose own status is the falsy 0 has been sent.
C4_Witness ==
    /\ wire # NotSent
    /\ arg.t = "obj"
    /\ "status" \in DOMAIN arg.f
    /\ arg.f["status"] = Num(0)
    /\ wire.f["status"] = Num(0)

\* C5: a payload passed to res.json that is not a plain object (an array, a
\* scalar or null) is sent identical to the input.
C5_NonObjectPassthrough ==
    (wire # NotSent /\ arg.t # "obj") => wire = arg

\* The GET /api/info requests that have been answered.
InfoAnswers ==
    {s \in Slots : reqs[s].st = "done" /\ reqs[s].m = "get" /\ reqs[s].p = UrlApiInfo}

\* The categories array of a response body, empty when it carries none.
CategoriesIn(body) ==
    IF body.t = "obj" /\ "categories" \in DOMAIN body.f /\ body.f["categories"].t = "cats"
    THEN body.f["categories"].v
    ELSE <<>>

\* The path values across all categories of a response body.
PathsIn(body) ==
    LET cats == CategoriesIn(body) IN
    UNION {{cats[c].items[k].path.v : k \in DOMAIN cats[c].items} : c \in DOMAIN cats}

\* C6: the set of path values across the categories of every GET /api/info
\* response, each taken up to the query suffix reattached to it for display,
\* equals the set of resolved paths under which routes are bound.
C6_CatalogPathsAreRoutePaths ==
    \A s \in InfoAnswers :
        {Split(q, "?")[1] : q \in PathsIn(reqs[s].body)} =
            {stack[i].path : i \in DOMAIN stack}

\* C7: for any two bound modules with the same category, every GET /api/info
\* response has exactly one category of that name, holding both entries, and
\* the items of every category are in discovery order.
C7_GroupedInDiscoveryOrder ==
    \A s \in InfoAnswers :
        LET cats == CategoriesIn(reqs[s].body)
            holds(c, e) == \E k \in DOMAIN cats[c].items : cats[c].items[k].name = e.name
        IN  /\ \A i, j \in DOMAIN apiModules :
                  (i < j /\ apiModules[i].category = apiModules[j].category) =>
                      /\ Cardinality({c \in DOMAIN cats :
                                        cats[c].name = apiModules[i].category}) = 1
                      /\ \E c \in DOMAIN cats :
                            /\ cats[c].name = apiModules[i].category
                            /\ holds(c, apiModules[i])
                            /\ holds(c, apiModules[j])
            /\ \A c \in DOMAIN cats : \A k, l \in DOMAIN cats[c].items :
                  k < l => cats[c].items[k].name.v < cats[c].items[l].name.v

\* The built-in endpoints as (method, path) pairs.
BuiltIn(m, p) ==
    m = "get" /\ p \in {UrlApiInfo, UrlSettings} \cup PageRoutes \cup WebFiles

\* C8 (as stated): a request (m, p) that is neither the (method, resolved
\* path) key of a loaded module nor a built-in endpoint is answered 404 with
\* the fallback body.
C8_AsStated ==
    \A s \in Slots :
        (/\ reqs[s].st \in {"done", "pending", "hung"}
         /\ ~\E i \in DOMAIN stack :
               stack[i].method = reqs[s].m /\ stack[i].path = reqs[s].p
         /\ ~BuiltIn(reqs[s].m, reqs[s].p))
        => reqs[s].st = "done" /\ reqs[s].code = 404 /\ reqs[s].body = NotFoundBody

\* C8 (amended): a request (m, p) other than OPTIONS whose body parses, that
\* no module route answers - a route answers its own method at its path, a
\* route registered with method all answers every method there, and a get
\* route also answers head - and that is not a built-in endpoint (which also
\* answer head) is answered 404 with the fallback body.
C8_Unmatched404 ==
    \A s \in Slots :
        (/\ reqs[s].st \in {"done", "pending", "hung"}
         /\ reqs[s].m # "options"
         /\ ~reqs[s].bad
         /\ ~\E i \in DOMAIN stack :
               /\ stack[i].path = reqs[s].p
               /\ \/ stack[i].method \in {reqs[s].m, "all"}
                  \/ stack[i].method = "get" /\ reqs[s].m = "head"
         /\ ~BuiltIn(reqs[s].m, reqs[s].p)
         /\ ~(reqs[s].m = "head" /\ BuiltIn("get", reqs[s].p)))
        => reqs[s].st = "done" /\ reqs[s].code = 404 /\ reqs[s].body = NotFoundBody

\* C8 witness: a POST to a path where a module is bound for GET only has
\* been answered 404 with the fallback body.
C8_Witness ==
    \E s \in Slots :
        /\ reqs[s].st = "done"
        /\ reqs[s].m = "post"
        /\ reqs[s].p = UrlApiA
        /\ \E i \in DOMAIN stack : stack[i].path = UrlApiA /\ stack[i].method = "get"
        /\ reqs[s].code = 404
        /\ reqs[s].body = NotFoundBody

\* C9: whenever a handler fails while serving a request, synchronously or in
\* asynchronous work it started, that request is answered 500 with the
\* fallback body and the process keeps running.
C9_FailuresBecome500 ==
    \A s \in Slots :
        reqs[s].failed # "no" =>
            /\ reqs[s].st = "done"
            /\ reqs[s].code = 500
            /\ reqs[s].body = ErrorBody
            /\ pc = "listening"

\* C10: every GET /api/info request is answered by the built-in endpoint,
\* also when a module's key is (get, /api/info), and what the endpoint sends
\* is { categories } passed through the envelope: the response carries
\* status, creator and the categories listing all loaded modules.
C10_InfoIsBuiltIn ==
    \A s \in InfoAnswers :
        /\ reqs[s].by = "info"
        /\ reqs[s].code = 200 =>
              /\ reqs[s].body.t = "obj"
              /\ {"status", "creator", "categories"} \subseteq DOMAIN reqs[s].body.f
              /\ \A i \in DOMAIN apiModules :
                    \E c \in DOMAIN CategoriesIn(reqs[s].body) :
                       \E k \in DOMAIN CategoriesIn(reqs[s].body)[c].items :
                          CategoriesIn(reqs[s].body)[c].items[k].name = apiModules[i].name

\* What an object payload must look like on the wire given the creator the
\* envelope is expected to fill in: every key of the payload with the
\* payload's own value, status 200 when the payload has no status key and
\* the expected creator when it has no creator key, and no other key.
EnvelopeAdds(expectedCreator) ==
    /\ wire.t = "obj"
    /\ DOMAIN wire.f = DOMAIN arg.f \cup {"status", "creator"}
    /\ \A k \in DOMAIN arg.f : wire.f[k] = arg.f[k]
    /\ "status" \notin DOMAIN arg.f => wire.f["status"] = Num(200)
    /\ "creator" \notin DOMAIN arg.f => wire.f["creator"] = expectedCreator

\* C11 (as stated): an object payload P passed to res.json is sent with
\* every key of P at P's own value, plus status 200 when P has no status key
\* and, when P has no creator key, creator equal to the configured
\* apiSettings.creator string, the fixed default being used only when the
\* configuration supplies none.
C11_AsStated ==
    (wire # NotSent /\ arg.t = "obj") =>
        EnvelopeAdds(IF settings.t = "undef" THEN DefaultCreator ELSE settings)

\* C11 (amended): an object payload P passed to res.json is sent with every
\* key of P at P's own value, plus status 200 when P has no status key and,
\* when P has no creator key, creator equal to the configured
\* apiSettings.creator when that is a non-empty string and to the fixed
\* default when the configuration supplies none or an empty string; the call
\* leaves P itself as it was.
C11_EnvelopeAddsDefaults ==
    /\ []((wire # NotSent /\ arg.t = "obj") =>
            EnvelopeAdds(IF settings.t = "str" /\ settings.v # ""
                         THEN settings ELSE DefaultCreator))
    /\ [][ResJson => arg' = arg]_vars

\* C11 witness: with an empty creator string configured, a payload with
\* neither status nor creator has been sent with status 200 and the default
\* creator next to its own key.
C11_Witness ==
    /\ wire # NotSent
    /\ settings = Str("")
    /\ arg = Obj("message" :> Str("pong"))
    /\ wire = Obj(("status" :> Num(200)) @@ ("creator" :> DefaultCreator) @@
                  ("message" :> Str("pong")))

\* C12: the catalog entry of every bound module with path template t has
\* the path "/api" followed by the whole of t - the base path and, when t
\* contains a '?', everything after the first '?' reattached, further '?'
\* characters included - and no route path contains the query suffix.
C12_CatalogPathIsWholeTemplate ==
    /\ \A i \in DOMAIN files : \A e \in EntriesOf(i) :
          apiModules[e].path.v = ApiPrefix \o files[i].path.v
    /\ \A l \in DOMAIN stack : ~Includes(stack[l].path, "?")

\* The requests that have been dispatched and whose body parsed.
Dispatched == {s \in Slots : reqs[s].st \in {"done", "pending", "hung"} /\ ~reqs[s].bad}

\* The modules bound under the key (m, p), in loading order.
BoundAt(m, p) ==
    {i \in DOMAIN files :
        \E l \in LayersOf(i) : stack[l].method = m /\ stack[l].path = p}

\* C13: for every bound module M, every request whose method and path equal
\* M's resolved key (and whose body parses) runs M's onStart, and the
\* handler of no other module.
C13_KeyInvokesItsModule ==
    \A s \in Dispatched : \A i \in BoundAt(reqs[s].m, reqs[s].p) :
        reqs[s].by = "module" /\ reqs[s].owner = i

PlacesOf(body, entry) ==
    LET cats == CategoriesIn(body) IN
    UNION {{<<c, k>> : k \in {x \in DOMAIN cats[c].items :
                                  cats[c].items[x].name = entry.name}} :
           c \in DOMAIN cats}

\* C15: whatever categories the bound modules carry - unset, or any string,
\* the name of a property every object inherits included - the built-in
\* GET /api/info answers 200, and every catalog entry is listed exactly
\* once, under the category named by its own category; an entry whose
\* category is unset is under a category of its own, named by a default
\* label or left without a name.
C15_EveryCategoryGroups ==
    \A s \in InfoAnswers :
        reqs[s].by = "info" =>
            /\ reqs[s].code = 200
            /\ \A i \in DOMAIN apiModules :
                  LET cats == CategoriesIn(reqs[s].body)
                      at == PlacesOf(reqs[s].body, apiModules[i])
                  IN  /\ Cardinality(at) = 1
                      /\ \A ck \in at :
                            \/ cats[ck[1]].name = apiModules[i].category
                            \/ /\ apiModules[i].category.t = "undef"
                               /\ cats[ck[1]].name.t = "str"

\* A path portion that is non-empty and begins with '/'.
WellFormedPath(q) == Len(q) >= 1 /\ q[1] = "/"

\* C16: in every state reached by loading modules, the path of every route
\* registered for a module is "/api" followed by a non-empty path portion
\* that begins with '/', and a module whose meta.path has an empty path
\* portion, or one that does not begin with '/', has no route and no
\* catalog entry.
C16_RoutePathsWellFormed ==
    /\ \A l \in DOMAIN stack :
          /\ Len(stack[l].path) > Len(ApiPrefix)
          /\ SubSeq(stack[l].path, 1, Len(ApiPrefix)) = ApiPrefix
          /\ WellFormedPath(SubSeq(stack[l].path, Len(ApiPrefix) + 1, Len(stack[l].path)))
    /\ \A i \in DOMAIN files :
          (files[i].path.t = "path" /\ ~WellFormedPath(Split(files[i].path.v, "?")[1]))
              => LayersOf(i) = {} /\ EntriesOf(i) = {}

\* The GET /api/info requests answered by the built-in endpoint.
BuiltInInfoAnswers == {s \in InfoAnswers : reqs[s].by = "info"}

\* C17: once loadModules has returned, no step of any request, on any
\* connection and in any interleaving, changes the route table or the
\* catalog; and any two GET /api/info requests answered by the built-in
\* endpoint, whatever was served in between, carry the same answer, with
\* the same categories in the same order.
C17_CatalogFrozenAfterStartup ==
    /\ [][pc # "loading" =>
             /\ stack' = stack
             /\ apiModules' = apiModules
             /\ appSettings' = appSettings
             /\ totalRoutes' = totalRoutes]_vars
    /\ [](\A s, u \in BuiltInInfoAnswers :
             /\ reqs[s].code = reqs[u].code
             /\ CategoriesIn(reqs[s].body) = CategoriesIn(reqs[u].body)
             /\ reqs[s].body = reqs[u].body)

\* C17 witness: two GET /api/info requests on different connections have
\* both been answered 200 with the one bound module listed, while the
\* catalog and the route table hold that module.
C17_Witness ==
    /\ Len(apiModules) >= 1
    /\ Len(stack) >= 1
    /\ reqs[1].st = "done" /\ reqs[1].by = "info" /\ reqs[1].code = 200
    /\ reqs[2].st = "done" /\ reqs[2].by = "info" /\ reqs[2].code = 200
    /\ Len(CategoriesIn(reqs[1].body)) >= 1
    /\ CategoriesIn(reqs[1].body) = CategoriesIn(reqs[2].body)

\* C18: discovery and binding run once, one file at a time, each file fully
\* loaded, validated and bound before the next is visited, and all of it
\* before the server accepts connections: a request is dispatched only when
\* loading is over, every visited file then being either bound in full (its
\* catalog entry, its count, and its route when its method registers one)
\* or not at all; files are visited
\* only while loading, one per step, while no request is in progress; and
\* loading never starts again.
C18_LoadedBeforeListening ==
    /\ [](\A s \in Slots : reqs[s].st # "idle" => pc # "loading")
    /\ [](/\ totalRoutes = Len(apiModules)
          /\ \A i \in DOMAIN files :
                /\ Cardinality(EntriesOf(i)) =
                       (IF LoadOutcome(files[i]) = "bound" THEN 1 ELSE 0)
                /\ Cardinality(LayersOf(i)) =
                       (IF LoadOutcome(files[i]) = "bound" /\ method(files[i]) \in RouteMethods
                        THEN 1 ELSE 0))
    /\ [][files' # files =>
             /\ pc = "loading" /\ pc' = "loading"
             /\ \A s \in Slots : reqs[s].st = "idle"
             /\ Len(files') = Len(files) + 1
             /\ SubSeq(files', 1, Len(files)) = files]_vars
    /\ [][pc # "loading" => pc' # "loading"]_vars

\* C18 witness: a file of invalid format and then a valid module were
\* visited, and a request has been served by that module once the server
\* was listening.
C18_Witness ==
    /\ pc = "listening"
    /\ Len(files) = 2
    /\ LoadOutcome(files[1]) = "skipped"
    /\ files[2] = BaseModule
    /\ reqs[1].st = "done"
    /\ reqs[1].by = "module"
    /\ reqs[1].owner = 2

====
